---- MODULE Spec2Model ----
(***************************************************************************)
(* Model of generate_reports.py: the usage-report generator.               *)
(*                                                                         *)
(* main() enumerates the usage-<day>.jsonl files of a directory, loads     *)
(* each one line by line, aggregates each day and the concatenation of all *)
(* days, renders one HTML page and prints a summary.                       *)
(*                                                                         *)
(* A usage record is a JSON object: a function whose DOMAIN is the set of  *)
(* field names it carries.  Costs are integers of a fixed unit; every      *)
(* quotient the code computes (rates, means) is kept as an exact fraction  *)
(* [num, den] with den > 0.  Day labels are the integers 1, 2, ... in      *)
(* calendar order; the label "global" is the integer 0.  A timestamp      *)
(* string is [valid, md, hm]: whether it is ISO-8601, and the month-day    *)
(* and hour:minute it denotes.                                             *)
(***************************************************************************)
EXTENDS Integers, Sequences, FiniteSets, TLC

VARIABLES pc, daily_files, fi, lineno, entries, all_entries, loaded, d,
          daily_data_list, global_data, html, written, exit_code, stderr

vars == <<pc, daily_files, fi, lineno, entries, all_entries, loaded, d,
          daily_data_list, global_data, html, written, exit_code, stderr>>

(***************************************************************************)
(* Bounds                                                                  *)
(***************************************************************************)
MaxDays == 2
MaxLines == 2
MaxMoneyLines == 2
MaxTimeLines == 2
MaxModelLines == 6
MaxTokenLines == 2
MaxSparseLines == 1

(***************************************************************************)
(* Program constants                                                       *)
(***************************************************************************)
PaletteSize == 5
NumLatBuckets == 10
LatBucketWidth == 2000
GLOBAL == 0
\* circ = 339.3, in hundredths
CircHundredths == 33930
GaugeHigh == 70
GaugeMid == 40

None == [none |-> TRUE]

IsNone(x) == DOMAIN x = {"none"}

(***************************************************************************)
(* Exact fractions                                                         *)
(***************************************************************************)
Rat(n, m) == [num |-> n, den |-> m]

RatLt(a, b) == a.num * b.den < b.num * a.den

RatLeq(a, b) == a.num * b.den <= b.num * a.den

RatEq(a, b) == a.num * b.den = b.num * a.den

\* Python max(a, b): b only when it is strictly greater than a
PyMax(a, b) == IF RatLt(a, b) THEN b ELSE a

\* Python min(a, b): b only when it is strictly smaller than a
PyMin(a, b) == IF RatLt(b, a) THEN b ELSE a

IntMax(a, b) == IF b > a THEN b ELSE a

IntMin(a, b) == IF b < a THEN b ELSE a

\* Python int(a / b) for b > 0: truncation toward zero
TruncDiv(a, b) == IF a >= 0 THEN a \div b ELSE -((-a) \div b)

(***************************************************************************)
(* dict.get with a default                                                 *)
(***************************************************************************)
Get(e, f, default) == IF f \in DOMAIN e THEN e[f] ELSE default

EmptyMap == [k \in {} |-> 0]

\* sum(e.get(field, 0) for e in seq)
SumField(seq, field) ==
  LET s[i \in 0..Len(seq)] ==
        IF i = 0 THEN 0 ELSE s[i - 1] + Get(seq[i], field, 0)
  IN  s[Len(seq)]

SumSeq(seq) ==
  LET s[i \in 0..Len(seq)] == IF i = 0 THEN 0 ELSE s[i - 1] + seq[i]
  IN  s[Len(seq)]

(***************************************************************************)
(* list.sort(key=..., reverse=True): a stable sort, elements with equal    *)
(* keys keep their original relative order.                                *)
(***************************************************************************)
InsertDesc(sorted, x, Key(_)) ==
  LET n == Cardinality({j \in 1..Len(sorted) : Key(sorted[j]) >= Key(x)})
  IN  SubSeq(sorted, 1, n) \o <<x>> \o SubSeq(sorted, n + 1, Len(sorted))

SortDesc(seq, Key(_)) ==
  LET f[i \in 0..Len(seq)] ==
        IF i = 0 THEN <<>> ELSE InsertDesc(f[i - 1], seq[i], Key)
  IN  f[Len(seq)]

\* sorted(set): ascending
SortedAsc(S) ==
  LET f[T \in SUBSET S] ==
        IF T = {} THEN <<>>
        ELSE LET m == CHOOSE x \in T : \A y \in T : x <= y
             IN  <<m>> \o f[T \ {m}]
  IN  f[S]

(***************************************************************************)
(* aggregate(entries, label)                                               *)
(***************************************************************************)
NewModelAcc ==
  [count |-> 0, cost |-> 0, baseline |-> 0, latencies |-> <<>>,
   input_tokens |-> 0, output_tokens |-> 0]

\* AccAdd that counts only the records that name their model
AccAddSkipsUnnamed(old, e) ==
  [count         |-> old.count + (IF "model" \in DOMAIN e THEN 1 ELSE 0),
   cost          |-> old.cost + Get(e, "cost", 0),
   baseline      |-> old.baseline + Get(e, "baselineCost", 0),
   latencies     |-> Append(old.latencies, Get(e, "latencyMs", 0)),
   input_tokens  |-> old.input_tokens + Get(e, "inputTokens", 0),
   output_tokens |-> old.output_tokens + Get(e, "outputTokens", 0)]

\* AccAdd that adds a record's cost only when it is positive
AccAddPositiveCost(old, e) ==
  [count         |-> old.count + 1,
   cost          |-> old.cost + IntMax(0, Get(e, "cost", 0)),
   baseline      |-> old.baseline + Get(e, "baselineCost", 0),
   latencies     |-> Append(old.latencies, Get(e, "latencyMs", 0)),
   input_tokens  |-> old.input_tokens + Get(e, "inputTokens", 0),
   output_tokens |-> old.output_tokens + Get(e, "outputTokens", 0)]

\* the six "by_model[m][...] +=" statements of the loop body
AccAdd(old, e) ==
  [count         |-> old.count + 1,
   cost          |-> old.cost + Get(e, "cost", 0),
   baseline      |-> old.baseline + Get(e, "baselineCost", 0),
   latencies     |-> Append(old.latencies, Get(e, "latencyMs", 0)),
   input_tokens  |-> old.input_tokens + Get(e, "inputTokens", 0),
   output_tokens |-> old.output_tokens + Get(e, "outputTokens", 0)]

\* one iteration of the "for e in entries" loop over by_model; order is the
\* insertion order of the dict
ByModelStep(bm, e) ==
  LET m    == Get(e, "model", "unknown")
      seen == m \in DOMAIN bm.acc
      old  == IF seen THEN bm.acc[m] ELSE NewModelAcc
      new  == AccAdd(old, e)
  IN  [order |-> IF seen THEN bm.order ELSE Append(bm.order, m),
       acc   |-> IF seen THEN [bm.acc EXCEPT ![m] = new]
                         ELSE bm.acc @@ (m :> new)]

ByModel(es) ==
  LET f[i \in 0..Len(es)] ==
        IF i = 0 THEN [order |-> <<>>, acc |-> EmptyMap]
        ELSE ByModelStep(f[i - 1], es[i])
  IN  f[Len(es)]

\* "color_idx": i % len(MODEL_COLORS), i the zero-based enumerate index
ColorIdx(i) == i % PaletteSize

\* ModelStat whose savings_pct is taken relative to the cost
ModelStatPctOfCost(i, model, v) ==
  LET mdl_savings == IntMax(0, v.baseline - v.cost)
      total_tokens == v.input_tokens + v.output_tokens
  IN  [model         |-> model,
       count         |-> v.count,
       cost          |-> v.cost,
       baseline      |-> v.baseline,
       savings       |-> mdl_savings,
       savings_pct   |-> IF v.cost > 0 THEN Rat(mdl_savings * 100, v.cost)
                                       ELSE Rat(0, 1),
       avg_latency   |-> IF Len(v.latencies) > 0
                         THEN Rat(SumSeq(v.latencies), Len(v.latencies))
                         ELSE Rat(0, 1),
       input_tokens  |-> v.input_tokens,
       output_tokens |-> v.output_tokens,
       total_tokens  |-> total_tokens,
       color_idx     |-> i % PaletteSize]

\* ModelStat whose savings are not floored at 0
ModelStatUnfloored(i, model, v) ==
  LET mdl_savings == v.baseline - v.cost
      total_tokens == v.input_tokens + v.output_tokens
  IN  [model         |-> model,
       count         |-> v.count,
       cost          |-> v.cost,
       baseline      |-> v.baseline,
       savings       |-> mdl_savings,
       savings_pct   |-> IF v.baseline > 0 THEN Rat(mdl_savings * 100, v.baseline)
                                           ELSE Rat(0, 1),
       avg_latency   |-> IF Len(v.latencies) > 0
                         THEN Rat(SumSeq(v.latencies), Len(v.latencies))
                         ELSE Rat(0, 1),
       input_tokens  |-> v.input_tokens,
       output_tokens |-> v.output_tokens,
       total_tokens  |-> total_tokens,
       color_idx     |-> i % PaletteSize]

\* the dict appended to models_list for the i-th (zero-based) item of by_model
ModelStat(i, model, v) ==
  LET mdl_savings == IntMax(0, v.baseline - v.cost)
      total_tokens == v.input_tokens + v.output_tokens
  IN  [model         |-> model,
       count         |-> v.count,
       cost          |-> v.cost,
       baseline      |-> v.baseline,
       savings       |-> mdl_savings,
       savings_pct   |-> IF v.baseline > 0 THEN Rat(mdl_savings * 100, v.baseline)
                                           ELSE Rat(0, 1),
       avg_latency   |-> IF Len(v.latencies) > 0
                         THEN Rat(SumSeq(v.latencies), Len(v.latencies))
                         ELSE Rat(0, 1),
       input_tokens  |-> v.input_tokens,
       output_tokens |-> v.output_tokens,
       total_tokens  |-> total_tokens,
       color_idx     |-> ColorIdx(i)]

ModelCostKey(x) == x.cost

\* SortModels as an ascending stable sort read backwards: ties come out in
\* reverse order
SortModelsReversedTies(ms) ==
  SortDesc([i \in 1..Len(ms) |-> ms[Len(ms) + 1 - i]], ModelCostKey)

\* SortModels that numbers the color slots after sorting
SortModelsThenColors(ms) ==
  LET sorted == SortDesc(ms, ModelCostKey)
  IN  [i \in 1..Len(sorted) |->
         [sorted[i] EXCEPT !.color_idx = (i - 1) % PaletteSize]]

\* models_list.sort(key=lambda x: x["cost"], reverse=True)
SortModels(ms) == SortDesc(ms, ModelCostKey)

\* models_list before the sort
ModelsList(bm) ==
  [i \in 1..Len(bm.order) |-> ModelStat(i - 1, bm.order[i], bm.acc[bm.order[i]])]

\* HasTokens that keeps the verdict of the last model only
HasTokensLastModel(ms) == Len(ms) > 0 /\ ms[Len(ms)].total_tokens > 0

\* has_tokens after the loop of lines 110-130
HasTokens(ms) == \E i \in 1..Len(ms) : ms[i].total_tokens > 0

\* ByTierStep that drops a record without a tier
ByTierStepSkipsUntiered(bt, e) ==
  IF "tier" \notin DOMAIN e THEN bt
  ELSE LET old == IF e.tier \in DOMAIN bt THEN bt[e.tier]
                  ELSE [count |-> 0, cost |-> 0]
           new == [count |-> old.count + 1, cost |-> old.cost + Get(e, "cost", 0)]
       IN  IF e.tier \in DOMAIN bt THEN [bt EXCEPT ![e.tier] = new]
                                   ELSE bt @@ (e.tier :> new)

\* by_tier[e.get("tier", "UNKNOWN")] gains one count and the record's cost
ByTierStep(bt, e) ==
  LET t   == Get(e, "tier", "UNKNOWN")
      old == IF t \in DOMAIN bt THEN bt[t] ELSE [count |-> 0, cost |-> 0]
      new == [count |-> old.count + 1, cost |-> old.cost + Get(e, "cost", 0)]
  IN  IF t \in DOMAIN bt THEN [bt EXCEPT ![t] = new] ELSE bt @@ (t :> new)

ByTier(es) ==
  LET f[i \in 0..Len(es)] ==
        IF i = 0 THEN EmptyMap ELSE ByTierStep(f[i - 1], es[i])
  IN  f[Len(es)]

\* Parseable that accepts every timestamp that is present
ParseableIfPresent(e) == "timestamp" \in DOMAIN e

\* datetime.fromisoformat(ts.replace("Z", "+00:00")) succeeds
Parseable(e) == "timestamp" \in DOMAIN e /\ e.timestamp.valid

\* BucketKey that buckets every scope by minute of day
BucketKeyAlwaysMinute(ts, label) == ts.hm

\* strftime("%H:%M") for a day scope, strftime("%m-%d") for label "global"
BucketKey(ts, label) == IF label /= GLOBAL THEN ts.hm ELSE ts.md

TimelineStep(tl, e, label) ==
  IF ~Parseable(e) THEN tl
  ELSE LET b == BucketKey(e.timestamp, label)
           m == Get(e, "model", "unknown")
           c == Get(e, "cost", 0)
           row == IF b \in DOMAIN tl THEN tl[b] ELSE EmptyMap
           newrow == IF m \in DOMAIN row THEN [row EXCEPT ![m] = @ + c]
                                         ELSE row @@ (m :> c)
       IN  IF b \in DOMAIN tl THEN [tl EXCEPT ![b] = newrow]
                              ELSE tl @@ (b :> newrow)

Timeline(es, label) ==
  LET f[i \in 0..Len(es)] ==
        IF i = 0 THEN EmptyMap ELSE TimelineStep(f[i - 1], es[i], label)
  IN  f[Len(es)]

\* LatIdx that saturates one bucket early
LatIdxEarlyClamp(e) ==
  IntMin(TruncDiv(Get(e, "latencyMs", 0), LatBucketWidth), NumLatBuckets - 2)

\* idx = min(int(latencyMs / 2000), 9)
LatIdx(e) == IntMin(TruncDiv(Get(e, "latencyMs", 0), LatBucketWidth), NumLatBuckets - 1)

\* LatStep that rejects a latency outside the ten buckets
LatStepRejecting(lb, e) ==
  LET raw == TruncDiv(Get(e, "latencyMs", 0), LatBucketWidth)
  IN  IF raw > NumLatBuckets - 1 \/ raw < 0 THEN lb
      ELSE [lb EXCEPT ![raw + 1] = @ + 1]

\* lat_buckets[idx] += 1 on a 10-element list (a negative idx counts from the end)
LatStep(lb, e) ==
  LET idx == LatIdx(e)
      pos == IF idx >= 0 THEN idx + 1 ELSE NumLatBuckets + idx + 1
  IN  [lb EXCEPT ![pos] = @ + 1]

LatBuckets(es) ==
  LET f[i \in 0..Len(es)] ==
        IF i = 0 THEN [k \in 1..NumLatBuckets |-> 0]
        ELSE LatStep(f[i - 1], es[i])
  IN  f[Len(es)]

\* RealSavings that floors the baseline instead of the difference
RealSavingsFloorsBaseline(total_baseline, total_cost) ==
  IntMax(0, total_baseline) - total_cost

RealSavings(total_baseline, total_cost) == IntMax(0, total_baseline - total_cost)

\* SavingsRate without the upper clamp
SavingsRateNoCap(real_savings, total_baseline) ==
  PyMax(Rat(0, 1),
        IF total_baseline > 0 THEN Rat(real_savings * 100, total_baseline)
                              ELSE Rat(0, 1))

SavingsRate(real_savings, total_baseline) ==
  PyMax(Rat(0, 1),
        PyMin(IF total_baseline > 0 THEN Rat(real_savings * 100, total_baseline)
                                    ELSE Rat(0, 1),
              Rat(100, 1)))

\* the body of aggregate after the "if not entries" guard
Period(es, label) ==
    LET total_cost     == SumField(es, "cost")
        total_baseline == SumField(es, "baselineCost")
        total_requests == Len(es)
        real_savings   == RealSavings(total_baseline, total_cost)
        models_list    == ModelsList(ByModel(es))
    IN  [label          |-> label,
         total_cost     |-> total_cost,
         total_baseline |-> total_baseline,
         real_savings   |-> real_savings,
         total_requests |-> total_requests,
         avg_latency    |-> Rat(SumField(es, "latencyMs"), IntMax(total_requests, 1)),
         savings_rate   |-> SavingsRate(real_savings, total_baseline),
         models         |-> SortModels(models_list),
         has_tokens     |-> HasTokens(models_list),
         by_tier        |-> ByTier(es),
         timeline       |-> Timeline(es, label),
         lat_buckets    |-> LatBuckets(es)]

\* aggregate without the "if not entries" guard
AggregateNoGuard(es, label) == Period(es, label)

Aggregate(es, label) == IF es = <<>> THEN None ELSE Period(es, label)

(***************************************************************************)
(* render_section and build_html: the page is a global section followed by *)
(* the daily sections, plus the sidebar links.                             *)
(***************************************************************************)
\* m["short"]: model.split("/")[-1], the text after the last "/"
ShortNames == ("x/m2" :> "m2")

Short(model) == IF model \in DOMAIN ShortNames THEN ShortNames[model] ELSE model

\* round(x, n) on a cost of x units of 10^-6: the nearest multiple of q
\* units (q = 1 for 6 decimals, 100 for 4), a tie going to the even multiple
RoundHalfEven(x, q) ==
  LET lo == (x \div q) * q
      r  == x - lo
  IN  IF 2 * r < q THEN lo
      ELSE IF 2 * r > q THEN lo + q
      ELSE IF (lo \div q) % 2 = 0 THEN lo ELSE lo + q

Round6(x) == RoundHalfEven(x, 1)

Round4(x) == RoundHalfEven(x, 100)

\* mc(idx) and ncm(idx): the palette slot of a color index
Mc(idx) == idx % PaletteSize

\* TlSeries that lists only the buckets in which the model has a cell
TlSeriesSparse(data, m, all_times) ==
  LET have == {k \in 1..Len(all_times) : m.model \in DOMAIN data.timeline[all_times[k]]}
      pick == SortedAsc(have)
  IN  [k \in 1..Len(pick) |-> Round6(data.timeline[all_times[pick[k]]][m.model])]

\* vals = [round(data["timeline"].get(t, {}).get(m["model"], 0), 6) for t in all_times]
TlSeries(data, m, all_times) ==
  [k \in 1..Len(all_times) |->
     LET row == IF all_times[k] \in DOMAIN data.timeline
                THEN data.timeline[all_times[k]] ELSE EmptyMap
     IN  Round6(IF m.model \in DOMAIN row THEN row[m.model] ELSE 0)]

\* chart_data(data)
ChartData(data) ==
  LET models    == data.models
      all_times == SortedAsc(DOMAIN data.timeline)
      N         == 1..Len(models)
  IN  [donut_labels |-> [i \in N |-> Short(models[i].model)],
       donut_costs  |-> [i \in N |-> Round6(models[i].cost)],
       donut_colors |-> [i \in N |-> Mc(models[i].color_idx)],
       bar_labels   |-> [i \in N |-> Short(models[i].model)],
       bar_cost     |-> [i \in N |-> Round4(models[i].cost)],
       bar_baseline |-> [i \in N |-> Round4(models[i].baseline)],
       bar_savings  |-> [i \in N |-> Round4(models[i].savings)],
       bar_colors   |-> [i \in N |-> Mc(models[i].color_idx)],
       tl_labels    |-> all_times,
       tl_datasets  |-> [i \in N |->
                           [label |-> Short(models[i].model),
                            data  |-> TlSeries(data, models[i], all_times),
                            color |-> models[i].color_idx]],
       lat_data     |-> data.lat_buckets]

\* the dict after row[key] on a defaultdict: a missing key is inserted
LookupInserts(row, key) == IF key \in DOMAIN row THEN row ELSE row @@ (key :> 0)

\* the dict after row.get(key, 0): nothing is inserted
LookupEffect(row, key) == row

\* data["timeline"] after the lookups of chart_data's timeline loop
TimelineAfterChart(data) ==
  [b \in DOMAIN data.timeline |->
     LET f[i \in 0..Len(data.models)] ==
           IF i = 0 THEN data.timeline[b]
           ELSE LookupEffect(f[i - 1], data.models[i].model)
     IN  f[Len(data.models)]]

\* the period object after render_section(data, ...) has returned
PeriodAfterRender(data) ==
  IF IsNone(data) THEN data
  ELSE [data EXCEPT !.timeline = TimelineAfterChart(data)]

\* model_rows_html: one row per model, a token cell only under has_tokens
ModelRows(models, has_tokens) ==
  [i \in 1..Len(models) |->
     [name   |-> Short(models[i].model),
      count  |-> models[i].count,
      pill   |-> models[i].savings_pct,
      tokens |-> IF has_tokens
                 THEN (IF models[i].total_tokens > 0
                       THEN models[i].total_tokens ELSE 0)
                 ELSE -1,
      color  |-> models[i].color_idx]]

\* tier_badges_html: one badge per tier
TierBadges(by_tier) ==
  [t \in DOMAIN by_tier |-> [count |-> by_tier[t].count, cost |-> by_tier[t].cost]]

\* GaugeSvg whose upper threshold is strict
GaugeSvgStrict(sr) ==
  LET frac == PyMin(Rat(sr.num, sr.den * 100), Rat(1, 1))
      dash == RoundHalfEven(CircHundredths * frac.num, frac.den) \div frac.den
  IN  [dash   |-> dash,
       offset |-> RoundHalfEven(CircHundredths - dash, 1),
       color  |-> IF RatLt(Rat(GaugeHigh, 1), sr) THEN "#6ee7df"
                  ELSE IF RatLeq(Rat(GaugeMid, 1), sr) THEN "#f5c97e"
                  ELSE "#d4a0c8"]

\* gauge_svg(sr): dash and offset in hundredths, both rounded to 2 decimals
GaugeSvg(sr) ==
  LET frac == PyMin(Rat(sr.num, sr.den * 100), Rat(1, 1))
      dash == RoundHalfEven(CircHundredths * frac.num, frac.den) \div frac.den
  IN  [dash   |-> dash,
       offset |-> RoundHalfEven(CircHundredths - dash, 1),
       color  |-> IF RatLeq(Rat(GaugeHigh, 1), sr) THEN "#6ee7df"
                  ELSE IF RatLeq(Rat(GaugeMid, 1), sr) THEN "#f5c97e"
                  ELSE "#d4a0c8"]

RenderSection(data, section_id, is_global) ==
  IF IsNone(data)
  THEN [id |-> section_id, empty |-> TRUE]
  ELSE [id |-> section_id, empty |-> FALSE, is_global |-> is_global,
        label |-> data.label, requests |-> data.total_requests,
        cost |-> data.total_cost,
        charts |-> ChartData(data),
        gauge |-> GaugeSvg(data.savings_rate),
        rows |-> ModelRows(data.models, data.has_tokens),
        tiers |-> TierBadges(data.by_tier),
        token_th |-> data.has_tokens]

\* d["label"] on a None element of daily_data_list raises TypeError
BuildRaises(daily) == \E i \in 1..Len(daily) : IsNone(daily[i])

BuildHtml(global, daily) ==
  [nav_daily      |-> [i \in 1..Len(daily) |->
                         [href |-> daily[i].label, label |-> daily[i].label,
                          requests |-> daily[i].total_requests,
                          cost |-> daily[i].total_cost]],
   daily_sections |-> [i \in 1..Len(daily) |->
                         RenderSection(daily[i], daily[i].label, FALSE)],
   global_section |-> RenderSection(global, GLOBAL, TRUE),
   total_days     |-> Len(daily),
   total_req      |-> IF IsNone(global) THEN 0 ELSE global.total_requests,
   total_cost     |-> IF IsNone(global) THEN 0 ELSE global.total_cost]

LabelKey(x) == x.label

\* daily_data_list.sort(key=lambda x: x["label"], reverse=True)
\* SortDaily without reverse=True: oldest day first
SortDailyOldestFirst(daily) ==
  LET s == SortDesc(daily, LabelKey)
  IN  [i \in 1..Len(s) |-> s[Len(s) + 1 - i]]

\* daily_data_list.sort(key=lambda x: x["label"], reverse=True)
SortDaily(daily) == SortDesc(daily, LabelKey)

(***************************************************************************)
(* Input domains                                                           *)
(***************************************************************************)
Ts(md, hm) == [valid |-> TRUE, md |-> md, hm |-> hm]

NotADate == [valid |-> FALSE, md |-> 0, hm |-> 0]

\* the records a line of a usage file may hold in the whole-run specification
Records ==
  { [cost |-> 2, baselineCost |-> 5, latencyMs |-> 500, model |-> "m1",
     tier |-> "SIMPLE", timestamp |-> Ts(1, 1)],
    [cost |-> 3, baselineCost |-> 1, latencyMs |-> 25000, model |-> "x/m2",
     tier |-> "MEDIUM", timestamp |-> NotADate,
     inputTokens |-> 10, outputTokens |-> 5] }

\* a field that is absent or carries one of Vals
Opt(name, Vals) == {EmptyMap} \cup {name :> v : v \in Vals}

\* records that vary in cost, baselineCost and model
MoneyRecords ==
  { c @@ b @@ m : c \in Opt("cost", {-1, 1, 2}),
                  b \in Opt("baselineCost", {-1, 3, 5}),
                  m \in Opt("model", {"m1"}) }

\* records that vary in latencyMs, and records that vary in timestamp
TimeRecords ==
  { l @@ [cost |-> 1, model |-> "m1", timestamp |-> Ts(1, 1)] :
      l \in Opt("latencyMs", {0, 1999, 2000, 17999, 18000, 25000, -2000}) }
  \cup
  { t @@ m @@ [latencyMs |-> 500] :
      t \in Opt("timestamp", {NotADate, Ts(1, 1), Ts(1, 2), Ts(2, 1)}),
      m \in {[model |-> "m1", cost |-> 1], [model |-> "m2", cost |-> 2]} }

\* records that vary in inputTokens, outputTokens and model
TokenRecords ==
  { i @@ o @@ m : i \in Opt("inputTokens", {0, 10}),
                  o \in Opt("outputTokens", {0, 5}),
                  m \in {[model |-> "m1"], [model |-> "m2"]} }

\* a record carrying every field the aggregator reads
FullRecord ==
  [cost |-> 2, baselineCost |-> 5, latencyMs |-> 4500, model |-> "m1",
   tier |-> "SIMPLE", timestamp |-> Ts(1, 1), inputTokens |-> 10,
   outputTokens |-> 5]

\* FullRecord with any subset of its fields missing
SparseRecords ==
  { [f \in S |-> FullRecord[f]] : S \in SUBSET DOMAIN FullRecord }

\* six models, named in the order in which a file first mentions them
ModelNames == <<"m1", "m2", "m3", "m4", "m5", "m6">>

ModelRecords ==
  { [model |-> ModelNames[k], cost |-> c] : k \in 1..Len(ModelNames), c \in {1, 2} }

\* the records of Recs that may follow es: a model already in es, or the
\* next unused name (model names are opaque, the code only tests them for
\* equality)
FirstSeenOrdered(Recs, es) ==
  LET used == {es[i].model : i \in 1..Len(es)}
      n    == Cardinality(used)
  IN  {r \in Recs : \E k \in 1..IntMin(n + 1, Len(ModelNames)) :
                       r.model = ModelNames[k]}

(***************************************************************************)
(* main()                                                                  *)
(***************************************************************************)
Init ==
  /\ pc = "start"
  /\ daily_files = <<>>
  /\ fi = 0
  /\ lineno = 0
  /\ entries = <<>>
  /\ all_entries = <<>>
  /\ loaded = EmptyMap
  /\ d = None
  /\ daily_data_list = <<>>
  /\ global_data = None
  /\ html = None
  /\ written = FALSE
  /\ exit_code = -1
  /\ stderr = ""

\* sys.exit(code), or an uncaught exception (traceback, exit status 1)
Exit(code, msg) ==
  /\ pc' = "exit"
  /\ exit_code' = code
  /\ stderr' = msg

\* len(sys.argv) < 2 or len(sys.argv) > 3
UsageError ==
  /\ pc = "start"
  /\ Exit(1, "Usage")
  /\ UNCHANGED <<daily_files, fi, lineno, entries, all_entries, loaded, d,
                 daily_data_list, global_data, html, written>>

\* not os.path.isdir(log_dir)
NotADirectory ==
  /\ pc = "start"
  /\ Exit(1, "Error: not a directory")
  /\ UNCHANGED <<daily_files, fi, lineno, entries, all_entries, loaded, d,
                 daily_data_list, global_data, html, written>>

\* find_daily_files returns the empty list
NoFiles ==
  /\ pc = "start"
  /\ Exit(1, "Error: no usage files found")
  /\ UNCHANGED <<daily_files, fi, lineno, entries, all_entries, loaded, d,
                 daily_data_list, global_data, html, written>>

\* find_daily_files: the usage files of the directory, sorted by name
FindDailyFiles(Days) ==
  /\ pc = "start"
  /\ \E present \in SUBSET Days :
       /\ present /= {}
       /\ daily_files' = SortedAsc(present)
  /\ fi' = 1
  /\ lineno' = 0
  /\ entries' = <<>>
  /\ pc' = "load"
  /\ stderr' = "Found daily files"
  /\ UNCHANGED <<all_entries, loaded, d, daily_data_list, global_data, html,
                 written, exit_code>>

\* load_jsonl: a line that parses as JSON
ReadRecord(Recs, max) ==
  /\ pc = "load"
  /\ lineno < max
  /\ \E r \in Recs : entries' = Append(entries, r)
  /\ lineno' = lineno + 1
  /\ UNCHANGED <<pc, daily_files, fi, all_entries, loaded, d, daily_data_list,
                 global_data, html, written, exit_code, stderr>>

\* load_jsonl: a blank line or one that raises JSONDecodeError
ReadMalformed(max) ==
  /\ pc = "load"
  /\ lineno < max
  /\ lineno' = lineno + 1
  /\ UNCHANGED <<pc, daily_files, fi, entries, all_entries, loaded, d,
                 daily_data_list, global_data, html, written, exit_code, stderr>>

\* end of the file: load_jsonl returns, the loop body of main runs
EndOfFile ==
  /\ pc = "load"
  /\ LET date_str == daily_files[fi]
     IN  \E res \in {Aggregate(entries, date_str)} :
           /\ loaded' = loaded @@ (date_str :> entries)
           /\ all_entries' = all_entries \o entries
           /\ d' = res
           /\ daily_data_list' = IF IsNone(res) THEN daily_data_list
                                                ELSE Append(daily_data_list, res)
  /\ IF fi < Len(daily_files)
     THEN /\ fi' = fi + 1
          /\ lineno' = 0
          /\ entries' = <<>>
          /\ pc' = "load"
     ELSE /\ pc' = "sort"
          /\ UNCHANGED <<fi, lineno, entries>>
  /\ stderr' = "entries"
  /\ UNCHANGED <<daily_files, global_data, html, written, exit_code>>

\* AggregateGlobal that aggregates the entries of the last file only
AggregateGlobalLastFile ==
  /\ pc = "sort"
  /\ daily_data_list' = SortDesc(daily_data_list, LabelKey)
  /\ global_data' = IF entries = <<>> THEN None ELSE Period(entries, GLOBAL)
  /\ pc' = "build"
  /\ UNCHANGED <<daily_files, fi, lineno, entries, all_entries, loaded, d,
                 html, written, exit_code, stderr>>

\* sort the days most recent first, aggregate all entries as "global"
AggregateGlobal ==
  /\ pc = "sort"
  /\ daily_data_list' = SortDaily(daily_data_list)
  /\ global_data' = Aggregate(all_entries, GLOBAL)
  /\ pc' = "build"
  /\ UNCHANGED <<daily_files, fi, lineno, entries, all_entries, loaded, d,
                 html, written, exit_code, stderr>>

\* build_html(global_data, daily_data_list, ...)
Build ==
  /\ pc = "build"
  /\ IF BuildRaises(daily_data_list)
     THEN Exit(1, "TypeError") /\ UNCHANGED html
          /\ UNCHANGED <<daily_data_list, global_data>>
     ELSE /\ html' = BuildHtml(global_data, daily_data_list)
          /\ global_data' = PeriodAfterRender(global_data)
          /\ daily_data_list' = [i \in 1..Len(daily_data_list) |->
                                   PeriodAfterRender(daily_data_list[i])]
          /\ pc' = "write"
          /\ UNCHANGED <<exit_code, stderr>>
  /\ UNCHANGED <<daily_files, fi, lineno, entries, all_entries, loaded, d,
                 written>>

\* open(output_path, "w") ... f.write(html)
WriteReport ==
  /\ pc = "write"
  /\ written' = TRUE
  /\ pc' = "summary"
  /\ UNCHANGED <<daily_files, fi, lineno, entries, all_entries, loaded, d,
                 daily_data_list, global_data, html, exit_code, stderr>>

\* the closing print subscripts global_data; on None that raises TypeError
PrintSummary ==
  /\ pc = "summary"
  /\ IF IsNone(global_data) THEN Exit(1, "TypeError")
                            ELSE Exit(0, "Report written")
  /\ UNCHANGED <<daily_files, fi, lineno, entries, all_entries, loaded, d,
                 daily_data_list, global_data, html, written>>

Next ==
  \/ UsageError
  \/ NotADirectory
  \/ NoFiles
  \/ FindDailyFiles(1..MaxDays)
  \/ ReadRecord(Records, MaxLines)
  \/ ReadMalformed(MaxLines)
  \/ EndOfFile
  \/ AggregateGlobal
  \/ Build
  \/ WriteReport
  \/ PrintSummary

Spec == Init /\ [][Next]_vars

(***************************************************************************)
(* aggregate as a function of its input: one usage file, read to its end,  *)
(* aggregated as a day and as "global".                                    *)
(***************************************************************************)
NextMoney ==
  \/ FindDailyFiles({1})
  \/ ReadRecord(MoneyRecords, MaxMoneyLines)
  \/ EndOfFile
  \/ AggregateGlobal
  \/ Build

SpecMoney == Init /\ [][NextMoney]_vars

NextTime ==
  \/ FindDailyFiles({1})
  \/ ReadRecord(TimeRecords, MaxTimeLines)
  \/ EndOfFile
  \/ AggregateGlobal
  \/ Build

SpecTime == Init /\ [][NextTime]_vars

NextModels ==
  \/ FindDailyFiles({1})
  \/ ReadRecord(FirstSeenOrdered(ModelRecords, entries), MaxModelLines)
  \/ EndOfFile

SpecModels == Init /\ [][NextModels]_vars

NextTokens ==
  \/ FindDailyFiles({1})
  \/ ReadRecord(TokenRecords, MaxTokenLines)
  \/ EndOfFile

SpecTokens == Init /\ [][NextTokens]_vars

NextSparse ==
  \/ FindDailyFiles({1})
  \/ ReadRecord(SparseRecords, MaxSparseLines)
  \/ EndOfFile

SpecSparse == Init /\ [][NextSparse]_vars

(***************************************************************************)
(* The calls of aggregate whose argument and result the state still holds: *)
(* the last day aggregated, and the global one.                            *)
(***************************************************************************)
LastDay == IF pc = "load" THEN fi - 1 ELSE fi

GlobalDone == fi >= 1 /\ pc \in {"build", "write", "summary", "exit"}

AggCalls ==
  (IF LastDay >= 1
   THEN {[in |-> loaded[daily_files[LastDay]], label |-> daily_files[LastDay],
          out |-> d]}
   ELSE {})
  \cup
  (IF GlobalDone
   THEN {[in |-> all_entries, label |-> GLOBAL, out |-> global_data]}
   ELSE {})

\* the render_section calls of build_html: the period passed and the
\* section returned
RenderCalls ==
  IF IsNone(html) THEN {}
  ELSE {[data |-> global_data, sec |-> html.global_section]}
       \cup {[data |-> daily_data_list[i], sec |-> html.daily_sections[i]] :
               i \in 1..Len(daily_data_list)}

(***************************************************************************)
(* Properties of aggregate                                                 *)
(***************************************************************************)
\* C1: for a non-empty record sequence, total_requests is the number of
\* input records and the sum of the ModelStat counts; each ModelStat counts
\* exactly the records of its model, records without a model field under
\* "unknown", and no model has two ModelStats.
C1_CountInvariant ==
  \A c \in AggCalls : c.in /= <<>> =>
    /\ ~IsNone(c.out)
    /\ c.out.total_requests = Len(c.in)
    /\ LET ms == c.out.models
       IN  /\ SumSeq([i \in 1..Len(ms) |-> ms[i].count]) = Len(c.in)
           /\ \A i \in 1..Len(ms) :
                ms[i].count =
                  Cardinality({j \in 1..Len(c.in) :
                     (IF "model" \in DOMAIN c.in[j] THEN c.in[j].model
                                                    ELSE "unknown") = ms[i].model})
           /\ \A i, j \in 1..Len(ms) : ms[i].model = ms[j].model => i = j

\* two models, one of them "unknown" from a record that has no model field
C1_Witness ==
  \E c \in AggCalls :
    /\ Len(c.in) >= 2
    /\ \E j \in 1..Len(c.in) : "model" \notin DOMAIN c.in[j]
    /\ Len(c.out.models) = 2
    /\ \E i \in 1..2 : c.out.models[i].model = "unknown"

\* C2: for a non-empty record sequence, the ModelStat costs sum to
\* total_cost and the ModelStat baselines sum to total_baseline.
C2_SumInvariant ==
  \A c \in AggCalls : c.in /= <<>> =>
    /\ ~IsNone(c.out)
    /\ LET ms == c.out.models
       IN  /\ SumSeq([i \in 1..Len(ms) |-> ms[i].cost]) = c.out.total_cost
           /\ SumSeq([i \in 1..Len(ms) |-> ms[i].baseline]) = c.out.total_baseline

\* two models with non-zero costs and baselines, one cost negative
C2_Witness ==
  \E c \in AggCalls :
    /\ ~IsNone(c.out)
    /\ Len(c.out.models) = 2
    /\ \A i \in 1..2 : c.out.models[i].cost /= 0 /\ c.out.models[i].baseline /= 0
    /\ \E i \in 1..2 : c.out.models[i].cost < 0

\* C3: the period's savings_rate is within [0, 100] for every input; it is
\* 0 when every record costs more than its baseline, and 100 when every
\* record costs 0 and the total baseline is positive.
C3_ClampInvariant ==
  \A c \in AggCalls : c.in /= <<>> =>
    /\ ~IsNone(c.out)
    /\ LET rate == c.out.savings_rate
           C(j) == IF "cost" \in DOMAIN c.in[j] THEN c.in[j].cost ELSE 0
           B(j) == IF "baselineCost" \in DOMAIN c.in[j]
                   THEN c.in[j].baselineCost ELSE 0
           N    == 1..Len(c.in)
       IN  /\ rate.den > 0
           /\ 0 <= rate.num
           /\ rate.num <= 100 * rate.den
           /\ (\A j \in N : B(j) < C(j)) => rate.num = 0
           /\ ((\A j \in N : C(j) = 0) /\ c.out.total_baseline > 0)
                => rate.num = 100 * rate.den

\* the raw quotient exceeds 100 (a negative cost) and the rate is 100
C3_Witness ==
  \E c \in AggCalls :
    /\ ~IsNone(c.out)
    /\ c.out.total_baseline > 0
    /\ c.out.real_savings > c.out.total_baseline
    /\ RatEq(c.out.savings_rate, Rat(100, 1))

\* C4 as stated: real_savings is max(0, total_baseline - total_cost) on the
\* summed totals, and savings_rate is real_savings / total_baseline * 100
\* when total_baseline > 0 and 0 otherwise.
C4_Original ==
  \A c \in AggCalls : c.in /= <<>> =>
    /\ ~IsNone(c.out)
    /\ LET tb == SumField(c.in, "baselineCost")
           tc == SumField(c.in, "cost")
           rs == IF tb - tc > 0 THEN tb - tc ELSE 0
       IN  /\ c.out.real_savings = rs
           /\ c.out.savings_rate.den > 0
           /\ IF tb > 0 THEN RatEq(c.out.savings_rate, Rat(rs * 100, tb))
                        ELSE c.out.savings_rate.num = 0

\* C4 (amended): real_savings is max(0, total_baseline - total_cost) on the
\* summed totals; savings_rate is the smaller of 100 and
\* real_savings / total_baseline * 100 when total_baseline > 0, and exactly
\* 0 when total_baseline is 0 or negative; no quotient has a zero divisor.
C4_SavingsRate ==
  \A c \in AggCalls : c.in /= <<>> =>
    /\ ~IsNone(c.out)
    /\ LET tb == SumField(c.in, "baselineCost")
           tc == SumField(c.in, "cost")
           rs == IF tb - tc > 0 THEN tb - tc ELSE 0
       IN  /\ c.out.real_savings = rs
           /\ c.out.savings_rate.den > 0
           /\ c.out.avg_latency.den > 0
           /\ \A i \in 1..Len(c.out.models) :
                c.out.models[i].savings_pct.den > 0
           /\ IF tb > 0
              THEN IF rs <= tb THEN RatEq(c.out.savings_rate, Rat(rs * 100, tb))
                               ELSE RatEq(c.out.savings_rate, Rat(100, 1))
              ELSE c.out.savings_rate.num = 0

\* a record that costs more than its baseline nets against another record's
\* savings: the period's savings are positive and below that record's alone
C4_Witness ==
  \E c \in AggCalls :
    /\ ~IsNone(c.out)
    /\ \E i, j \in 1..Len(c.in) :
         /\ Get(c.in[i], "cost", 0) > Get(c.in[i], "baselineCost", 0)
         /\ Get(c.in[j], "baselineCost", 0) - Get(c.in[j], "cost", 0)
              > c.out.real_savings
    /\ c.out.real_savings > 0
    /\ c.out.savings_rate.num > 0

\* C5: aggregate returns None for an empty record collection, whatever the
\* scope label, and a period carrying that label for a non-empty one.
C5_EmptyIsNone ==
  \A c \in AggCalls :
    /\ c.in = <<>> => IsNone(c.out)
    /\ c.in /= <<>> => /\ ~IsNone(c.out)
                       /\ c.out.label = c.label
                       /\ c.out.total_requests > 0

\* a day and the global scope both aggregated from no record
C5_Witness ==
  /\ GlobalDone
  /\ \E c \in AggCalls : c.label = GLOBAL /\ c.in = <<>> /\ IsNone(c.out)
  /\ \E c \in AggCalls : c.label /= GLOBAL /\ c.in = <<>> /\ IsNone(c.out)

\* C6 as stated: every scope with no record appears in the page as an empty
\* section: each day file without a valid record, and the global scope when
\* no file has one.
C6_EmptyScopesRendered ==
  ~IsNone(html) =>
    /\ \A day \in DOMAIN loaded :
         loaded[day] = <<>> =>
           \E i \in 1..Len(html.daily_sections) :
             html.daily_sections[i].id = day /\ html.daily_sections[i].empty
    /\ all_entries = <<>> =>
         html.global_section.id = GLOBAL /\ html.global_section.empty

\* C7: a record without a parseable timestamp counts in every aggregate but
\* the timeline as it would with a valid timestamp, and adds no bucket and
\* no cost to the timeline; a record with a parseable timestamp has its
\* (bucket, model) cell, and the cells hold the parseable records' costs.
C7_BadTimestamp ==
  \A c \in AggCalls : c.in /= <<>> =>
    /\ ~IsNone(c.out)
    /\ LET N     == 1..Len(c.in)
           ok(j) == "timestamp" \in DOMAIN c.in[j] /\ c.in[j].timestamp.valid
           key(j) == IF c.label = GLOBAL THEN c.in[j].timestamp.md
                                         ELSE c.in[j].timestamp.hm
           mdl(j) == IF "model" \in DOMAIN c.in[j] THEN c.in[j].model
                                                   ELSE "unknown"
           fixed == [j \in N |->
                       IF ok(j) THEN c.in[j]
                       ELSE [f \in (DOMAIN c.in[j]) \cup {"timestamp"} |->
                               IF f = "timestamp" THEN Ts(1, 1) ELSE c.in[j][f]]]
           ref   == Aggregate(fixed, c.label)
           tl    == c.out.timeline
           row(b) == SumSeq([j \in N |->
                       IF ok(j) /\ key(j) = b
                       THEN (IF "cost" \in DOMAIN c.in[j] THEN c.in[j].cost ELSE 0)
                       ELSE 0])
       IN  /\ c.out.total_cost = ref.total_cost
           /\ c.out.total_baseline = ref.total_baseline
           /\ c.out.total_requests = ref.total_requests
           /\ c.out.total_requests = Len(c.in)
           /\ c.out.avg_latency = ref.avg_latency
           /\ c.out.models = ref.models
           /\ c.out.by_tier = ref.by_tier
           /\ c.out.lat_buckets = ref.lat_buckets
           /\ DOMAIN tl = {key(j) : j \in {k \in N : ok(k)}}
           /\ \A j \in N : ok(j) => mdl(j) \in DOMAIN tl[key(j)]
           /\ \A b \in DOMAIN tl :
                LET sum[T \in SUBSET DOMAIN tl[b]] ==
                      IF T = {} THEN 0
                      ELSE LET m == CHOOSE x \in T : TRUE
                           IN  tl[b][m] + sum[T \ {m}]
                IN  sum[DOMAIN tl[b]] = row(b)

\* a record with "not-a-date" and a parseable one: both are counted, one
\* bucket
C7_Witness ==
  \E c \in AggCalls :
    /\ ~IsNone(c.out)
    /\ \E j \in 1..Len(c.in) :
         "timestamp" \in DOMAIN c.in[j] /\ ~c.in[j].timestamp.valid
    /\ \E j \in 1..Len(c.in) :
         "timestamp" \in DOMAIN c.in[j] /\ c.in[j].timestamp.valid
    /\ Cardinality(DOMAIN c.out.timeline) = 1
    /\ c.out.total_requests = Len(c.in)
    /\ c.out.total_cost >= 2

\* C8: the histogram has 10 buckets; the records with latencyMs >= 0 (an
\* absent latencyMs is 0) are counted in bucket min(floor(latencyMs/2000), 9)
\* each, so every latency >= 18000 is in bucket 9; what the buckets hold
\* beyond that is one count per record with a negative latencyMs.
C8_HistogramSaturates ==
  \A c \in AggCalls : c.in /= <<>> =>
    /\ ~IsNone(c.out)
    /\ LET N      == 1..Len(c.in)
           lat(j) == IF "latencyMs" \in DOMAIN c.in[j] THEN c.in[j].latencyMs ELSE 0
           idx(j) == IF lat(j) \div 2000 < 9 THEN lat(j) \div 2000 ELSE 9
           hist   == c.out.lat_buckets
           own(k) == Cardinality({j \in N : lat(j) >= 0 /\ idx(j) = k})
       IN  /\ DOMAIN hist = 1..10
           /\ \A k \in 0..9 : hist[k + 1] >= own(k)
           /\ SumSeq([k \in 1..10 |-> hist[k] - own(k - 1)])
                = Cardinality({j \in N : lat(j) < 0})
           /\ \A j \in N : lat(j) >= 18000 => idx(j) = 9 /\ hist[10] >= 1

\* 25000 ms and 17999 ms: buckets 9 and 8
C8_Witness ==
  \E c \in AggCalls :
    /\ ~IsNone(c.out)
    /\ \E j \in 1..Len(c.in) : Get(c.in[j], "latencyMs", 0) = 25000
    /\ \E j \in 1..Len(c.in) : Get(c.in[j], "latencyMs", 0) = 17999
    /\ c.out.lat_buckets[10] = 1
    /\ c.out.lat_buckets[9] = 1

\* for each entry of ms, the index in es of the first record of its model
FirstSeenAt(es, ms) ==
  [i \in 1..Len(ms) |->
     CHOOSE j \in 1..Len(es) :
       /\ Get(es[j], "model", "unknown") = ms[i].model
       /\ \A k \in 1..(j - 1) : Get(es[k], "model", "unknown") /= ms[i].model]

\* C9: models is ordered by cost non-increasing, and models of equal cost
\* are in the order in which their first records appear in the input.
C9_StableSort ==
  \A c \in AggCalls : c.in /= <<>> =>
    /\ ~IsNone(c.out)
    /\ \A ms \in {c.out.models} :
       \A first \in {FirstSeenAt(c.in, ms)} :
         \A i, j \in 1..Len(ms) : i < j =>
           /\ ms[i].cost >= ms[j].cost
           /\ ms[i].cost = ms[j].cost => first[i] < first[j]

\* three models: the one seen last costs most, the two seen before it tie
\* and keep their order
C9_Witness ==
  \E c \in AggCalls :
    /\ ~IsNone(c.out)
    /\ Len(c.out.models) = 3
    /\ c.out.models[1].model = "m3"
    /\ c.out.models[2].model = "m1"
    /\ c.out.models[3].model = "m2"
    /\ c.out.models[2].cost = c.out.models[3].cost

\* C10: color_idx is the zero-based rank of the model's first appearance
\* among the distinct models of the input, modulo 5, whatever the model's
\* place after the sort: it is in 0..4, the first five distinct models have
\* distinct slots, and two models five ranks apart share one.
C10_ColorSlot ==
  \A c \in AggCalls : c.in /= <<>> =>
    /\ ~IsNone(c.out)
    /\ \A ms \in {c.out.models} :
       \A first \in {FirstSeenAt(c.in, ms)} :
         \A rank \in {[i \in 1..Len(ms) |->
                         Cardinality({k \in 1..Len(ms) : first[k] < first[i]})]} :
           \A i \in 1..Len(ms) :
             /\ ms[i].color_idx = rank[i] % 5
             /\ ms[i].color_idx \in 0..4
             /\ \A j \in 1..Len(ms) :
                  /\ (i /= j /\ rank[i] < 5 /\ rank[j] < 5)
                       => ms[i].color_idx /= ms[j].color_idx
                  /\ rank[j] = rank[i] + 5 => ms[i].color_idx = ms[j].color_idx

\* six models; the sixth seen is sorted first and shares slot 0 with the
\* first seen, which is sorted second
C10_Witness ==
  \E c \in AggCalls :
    /\ ~IsNone(c.out)
    /\ Len(c.out.models) = 6
    /\ c.out.models[1].model = "m6"
    /\ c.out.models[1].color_idx = 0
    /\ c.out.models[2].model = "m1"
    /\ c.out.models[2].color_idx = 0

(***************************************************************************)
(* Timeline buckets                                                        *)
(***************************************************************************)
\* C11: a record with a parseable timestamp is bucketed under its HH:MM in
\* a day scope and under its MM-DD in the "global" scope; the timeline has
\* exactly the (bucket, model) cells of those records, and each cell is the
\* sum of cost over exactly the records with that bucket key and model.
C11_TimelineCells ==
  \A c \in AggCalls : c.in /= <<>> =>
    \A tl \in {c.out.timeline} :
      LET N      == 1..Len(c.in)
          ok(j)  == "timestamp" \in DOMAIN c.in[j] /\ c.in[j].timestamp.valid
          key(j) == IF c.label = GLOBAL THEN c.in[j].timestamp.md
                                        ELSE c.in[j].timestamp.hm
          mdl(j) == IF "model" \in DOMAIN c.in[j] THEN c.in[j].model
                                                  ELSE "unknown"
          cst(j) == IF "cost" \in DOMAIN c.in[j] THEN c.in[j].cost ELSE 0
          cells  == {<<key(j), mdl(j)>> : j \in {k \in N : ok(k)}}
      IN  /\ {bm \in (DOMAIN tl) \X UNION {DOMAIN tl[x] : x \in DOMAIN tl} :
                 bm[2] \in DOMAIN tl[bm[1]]} = cells
          /\ \A b \in DOMAIN tl : DOMAIN tl[b] /= {}
          /\ \A b \in DOMAIN tl : \A m \in DOMAIN tl[b] :
                tl[b][m] = SumSeq([j \in N |->
                             IF ok(j) /\ key(j) = b /\ mdl(j) = m
                             THEN cst(j) ELSE 0])

\* two records of one day at different minutes: two HH:MM buckets in the
\* day's timeline and a single MM-DD bucket, holding both costs, in the
\* global one
C11_Witness ==
  /\ GlobalDone
  /\ \E c \in AggCalls :
       /\ c.label /= GLOBAL
       /\ ~IsNone(c.out)
       /\ Cardinality(DOMAIN c.out.timeline) = 2
  /\ \E c \in AggCalls :
       /\ c.label = GLOBAL
       /\ ~IsNone(c.out)
       /\ Cardinality(DOMAIN c.out.timeline) = 1
       /\ \E b \in DOMAIN c.out.timeline :
            "m1" \in DOMAIN c.out.timeline[b] /\ c.out.timeline[b]["m1"] >= 2

(***************************************************************************)
(* Chart series                                                            *)
(***************************************************************************)
\* C12: the chart data of a period has one timeline series per ModelStat,
\* in the order of the sorted models; the labels are the distinct bucket keys
\* in ascending order, every series has one value per label, the value of
\* series i at label k is the timeline cell of (key k, model i), and it is
\* exactly 0 where the timeline has no such cell.
C12_DenseSeries ==
  \A r \in RenderCalls : ~r.sec.empty =>
    \A ch \in {r.sec.charts} :
      LET tl == r.data.timeline
          ms == r.data.models
          ks == ch.tl_labels
      IN  /\ Len(ch.tl_datasets) = Len(ms)
          /\ Len(ks) = Cardinality(DOMAIN tl)
          /\ {ks[k] : k \in 1..Len(ks)} = DOMAIN tl
          /\ \A k \in 1..(Len(ks) - 1) : ks[k] < ks[k + 1]
          /\ \A i \in 1..Len(ms) :
                /\ Len(ch.tl_datasets[i].data) = Len(ks)
                /\ \A k \in 1..Len(ks) :
                     ch.tl_datasets[i].data[k] =
                       IF ms[i].model \in DOMAIN tl[ks[k]]
                       THEN tl[ks[k]][ms[i].model] ELSE 0

\* two models and two buckets, one model absent from one bucket: its series
\* holds a 0 there and a cost elsewhere
C12_Witness ==
  \E r \in RenderCalls :
    /\ ~r.sec.empty
    /\ Len(r.sec.charts.tl_datasets) = 2
    /\ Len(r.sec.charts.tl_labels) = 2
    /\ \E i \in 1..2 : \E k \in 1..2 :
         /\ r.data.models[i].model \notin DOMAIN r.data.timeline[r.sec.charts.tl_labels[k]]
         /\ r.sec.charts.tl_datasets[i].data[k] = 0
         /\ r.sec.charts.tl_datasets[i].data[3 - k] > 0

(***************************************************************************)
(* Token columns and missing fields                                        *)
(***************************************************************************)
\* C13: has_tokens of a period is true exactly when at least one of its
\* records, of whatever model, carries a non-zero inputTokens or
\* outputTokens; a missing token field counts as 0 (token counts are
\* non-negative).
C13_HasTokens ==
  \A c \in AggCalls : c.in /= <<>> =>
    LET tok(j, f) == IF f \in DOMAIN c.in[j] THEN c.in[j][f] ELSE 0
    IN  c.out.has_tokens
          <=> \E j \in 1..Len(c.in) :
                tok(j, "inputTokens") /= 0 \/ tok(j, "outputTokens") /= 0

\* the first model's only record has inputTokens 0, the second model's
\* only record has outputTokens 5 and no inputTokens: has_tokens is true
C13_Witness ==
  \E c \in AggCalls :
    /\ Len(c.in) = 2
    /\ c.in[1] = [inputTokens |-> 0, model |-> "m2"]
    /\ c.in[2] = [outputTokens |-> 5, model |-> "m1"]
    /\ ~IsNone(c.out)
    /\ c.out.has_tokens
    /\ \E i \in 1..Len(c.out.models) : c.out.models[i].total_tokens = 0

\* C14: a record missing any subset of its fields is never dropped and
\* never makes aggregate fail: every record is counted in total_requests,
\* in one ModelStat, one tier and one histogram bucket, with cost 0,
\* baselineCost 0, latencyMs 0 (bucket 0) and tokens 0 for the missing
\* numbers, model "unknown" for a missing model and tier "UNKNOWN" for a
\* missing tier.
C14_MissingFields ==
  \A c \in AggCalls : c.in /= <<>> =>
    /\ ~IsNone(c.out)
    /\ LET N          == 1..Len(c.in)
           num(j, f)  == IF f \in DOMAIN c.in[j] THEN c.in[j][f] ELSE 0
           mdl(j)     == IF "model" \in DOMAIN c.in[j] THEN c.in[j].model
                                                       ELSE "unknown"
           tier(j)    == IF "tier" \in DOMAIN c.in[j] THEN c.in[j].tier
                                                      ELSE "UNKNOWN"
           idx(j)     == IF num(j, "latencyMs") \div 2000 < 9
                         THEN num(j, "latencyMs") \div 2000 ELSE 9
           ms         == c.out.models
           stat(m)    == CHOOSE i \in 1..Len(ms) : ms[i].model = m
           of(m)      == {j \in N : mdl(j) = m}
       IN  /\ c.out.total_requests = Len(c.in)
           /\ c.out.total_cost = SumSeq([j \in N |-> num(j, "cost")])
           /\ c.out.total_baseline = SumSeq([j \in N |-> num(j, "baselineCost")])
           /\ RatEq(c.out.avg_latency,
                    Rat(SumSeq([j \in N |-> num(j, "latencyMs")]), Len(c.in)))
           /\ \A k \in 0..9 :
                c.out.lat_buckets[k + 1] = Cardinality({j \in N : idx(j) = k})
           /\ {ms[i].model : i \in 1..Len(ms)} = {mdl(j) : j \in N}
           /\ \A m \in {mdl(j) : j \in N} :
                /\ ms[stat(m)].count = Cardinality(of(m))
                /\ ms[stat(m)].cost =
                     SumSeq([j \in N |-> IF mdl(j) = m THEN num(j, "cost") ELSE 0])
                /\ ms[stat(m)].baseline =
                     SumSeq([j \in N |-> IF mdl(j) = m THEN num(j, "baselineCost") ELSE 0])
                /\ ms[stat(m)].input_tokens =
                     SumSeq([j \in N |-> IF mdl(j) = m THEN num(j, "inputTokens") ELSE 0])
                /\ ms[stat(m)].output_tokens =
                     SumSeq([j \in N |-> IF mdl(j) = m THEN num(j, "outputTokens") ELSE 0])
           /\ DOMAIN c.out.by_tier = {tier(j) : j \in N}
           /\ \A t \in DOMAIN c.out.by_tier :
                /\ c.out.by_tier[t].count = Cardinality({j \in N : tier(j) = t})
                /\ c.out.by_tier[t].cost =
                     SumSeq([j \in N |-> IF tier(j) = t THEN num(j, "cost") ELSE 0])

\* a record with no field at all: one request of model "unknown" and tier
\* "UNKNOWN" in histogram bucket 0, at cost 0
C14_Witness ==
  \E c \in AggCalls :
    /\ \E j \in 1..Len(c.in) : DOMAIN c.in[j] = {}
    /\ ~IsNone(c.out)
    /\ c.out.total_requests = Len(c.in)
    /\ \E i \in 1..Len(c.out.models) :
         c.out.models[i].model = "unknown" /\ c.out.models[i].count >= 1
    /\ "UNKNOWN" \in DOMAIN c.out.by_tier
    /\ c.out.lat_buckets[1] >= 1

(***************************************************************************)
(* The gauge                                                               *)
(***************************************************************************)
\* C15 as stated: for every savings rate in [0, 100] the dash length is
\* exactly circumference * rate / 100, dash + gap is the circumference, and
\* the color is the first for rate >= 70, the second for 40 <= rate < 70,
\* the third for rate < 40.
C15_Original ==
  \A r \in RenderCalls : ~r.sec.empty =>
    LET sr == r.data.savings_rate
        g  == r.sec.gauge
    IN  /\ g.dash * 100 * sr.den = CircHundredths * sr.num
        /\ g.dash + g.offset = CircHundredths
        /\ g.color = IF RatLeq(Rat(70, 1), sr) THEN "#6ee7df"
                     ELSE IF RatLeq(Rat(40, 1), sr) THEN "#f5c97e"
                     ELSE "#d4a0c8"

\* C15: for every savings rate in [0, 100] the dash length is
\* circumference * rate / 100 rounded to two decimals (within 0.005 of the
\* proportional length, between 0 and 339.3), dash + gap is the
\* circumference, and the color is the first for rate >= 70, the second for
\* 40 <= rate < 70, the third for rate < 40.
C15_Gauge ==
  \A r \in RenderCalls : ~r.sec.empty =>
    LET sr  == r.data.savings_rate
        g   == r.sec.gauge
        err == g.dash * 100 * sr.den - CircHundredths * sr.num
    IN  /\ sr.den > 0 /\ sr.num >= 0 /\ sr.num <= 100 * sr.den
        /\ 2 * err <= 100 * sr.den /\ 2 * err >= -(100 * sr.den)
        /\ g.dash >= 0 /\ g.dash <= CircHundredths
        /\ g.dash + g.offset = CircHundredths
        /\ g.color = IF RatLeq(Rat(70, 1), sr) THEN "#6ee7df"
                     ELSE IF RatLeq(Rat(40, 1), sr) THEN "#f5c97e"
                     ELSE "#d4a0c8"

\* a period saving exactly 70 percent: dash 237.51, gap 101.79, first color
C15_Witness ==
  \E r \in RenderCalls :
    /\ ~r.sec.empty
    /\ RatEq(r.data.savings_rate, Rat(70, 1))
    /\ r.sec.gauge = [dash |-> 23751, offset |-> 10179, color |-> "#6ee7df"]

(***************************************************************************)
(* What main hands to build_html                                           *)
(***************************************************************************)
\* C16: whatever day files the run loaded, build_html is handed the per-day
\* periods in strictly descending order of their day label, one per day
\* file that holds a record, each the aggregate of that day's records,
\* together with one global argument: the period labelled "global" of all
\* records (the sentinel when no file holds a record).
C16_MostRecentFirst ==
  GlobalDone =>
    /\ \A i \in 1..(Len(daily_data_list) - 1) :
         daily_data_list[i].label > daily_data_list[i + 1].label
    /\ {daily_data_list[i].label : i \in 1..Len(daily_data_list)}
         = {daily_files[k] : k \in {j \in 1..Len(daily_files) :
                                      loaded[daily_files[j]] /= <<>>}}
    /\ \A i \in 1..Len(daily_data_list) :
         daily_data_list[i].total_requests = Len(loaded[daily_data_list[i].label])
    /\ IsNone(global_data) <=> all_entries = <<>>
    /\ ~IsNone(global_data) =>
         global_data.label = GLOBAL /\ global_data.total_requests = Len(all_entries)

\* two day files with records, loaded oldest first: the renderer gets day 2
\* before day 1, and the global period
C16_Witness ==
  /\ pc = "build"
  /\ daily_files = <<1, 2>>
  /\ Len(daily_data_list) = 2
  /\ daily_data_list[1].label = 2
  /\ daily_data_list[2].label = 1
  /\ ~IsNone(global_data)
  /\ global_data.label = GLOBAL

\* C17: the global period is aggregate applied once, with scope "global", to
\* the concatenation of the records of all day files in load order; its
\* total_requests is the sum of the record counts of all day files, empty
\* ones included, and its latency histogram is the element-wise sum of the
\* per-day histograms.
C17_GlobalIsOneAggregate ==
  GlobalDone =>
    LET F == 1..Len(daily_files)
        cat[k \in 0..Len(daily_files)] ==
          IF k = 0 THEN <<>> ELSE cat[k - 1] \o loaded[daily_files[k]]
        days == 1..Len(daily_data_list)
    IN  /\ all_entries = cat[Len(daily_files)]
        /\ global_data = Aggregate(cat[Len(daily_files)], GLOBAL)
        /\ ~IsNone(global_data) =>
             /\ global_data.label = GLOBAL
             /\ global_data.total_requests
                  = SumSeq([k \in F |-> Len(loaded[daily_files[k]])])
             /\ \A b \in 1..NumLatBuckets :
                  global_data.lat_buckets[b]
                    = SumSeq([i \in days |-> daily_data_list[i].lat_buckets[b]])

\* two days with one record each, a fast one and a slow one: the global
\* histogram has both, the global count is 2
C17_Witness ==
  /\ GlobalDone
  /\ Len(daily_files) = 2
  /\ Len(daily_data_list) = 2
  /\ ~IsNone(global_data)
  /\ global_data.total_requests = 2
  /\ global_data.lat_buckets[1] = 1
  /\ global_data.lat_buckets[10] = 1
  /\ daily_data_list[1].lat_buckets[1] + daily_data_list[1].lat_buckets[10] = 1

(***************************************************************************)
(* The presentation mapper's frame                                         *)
(***************************************************************************)
\* C18: once build_html has rendered every section, each period it was
\* given is still the value aggregate returned for its records and scope:
\* scalars, models and their order, by_tier, timeline keys and cells and
\* lat_buckets are unchanged, and the lookup of a (bucket, model) pair the
\* timeline lacks has added no entry.
C18_MapperFrame ==
  ~IsNone(html) =>
    /\ global_data = Aggregate(all_entries, GLOBAL)
    /\ \A i \in 1..Len(daily_data_list) :
         daily_data_list[i]
           = Aggregate(loaded[daily_data_list[i].label], daily_data_list[i].label)
    /\ \A r \in RenderCalls : ~r.sec.empty =>
         r.data.timeline = Timeline(IF r.data.label = GLOBAL THEN all_entries
                                    ELSE loaded[r.data.label], r.data.label)

\* a rendered period with two models and two buckets whose chart read a
\* pair the timeline lacks: the pair is still absent after rendering
C18_Witness ==
  /\ ~IsNone(html)
  /\ \E r \in RenderCalls :
       /\ ~r.sec.empty
       /\ Len(r.data.models) = 2
       /\ \E k \in 1..Len(r.sec.charts.tl_labels) : \E i \in 1..2 :
            /\ r.sec.charts.tl_datasets[i].data[k] = 0
            /\ r.data.models[i].model
                 \notin DOMAIN r.data.timeline[r.sec.charts.tl_labels[k]]

(***************************************************************************)
(* Termination of main                                                     *)
(***************************************************************************)
\* C19 as stated: a run that has written the report ends with exit code 0,
\* whatever the usage files hold, and exit code 1 is only ever the outcome
\* of a run that has written no report.
C19_ExitZeroAfterWrite ==
  /\ (pc = "exit" /\ written) => exit_code = 0
  /\ exit_code = 1 => ~written

(***************************************************************************)
(* The histogram's total                                                   *)
(***************************************************************************)
\* C20: for a non-empty record sequence the 10 histogram buckets sum to
\* total_requests, the number of records: every record, whether latencyMs
\* is absent, zero or beyond the last bucket, adds one to one bucket.
C20_HistogramTotal ==
  \A c \in AggCalls : c.in /= <<>> =>
    \A hist \in {c.out.lat_buckets} :
      /\ Len(hist) = NumLatBuckets
      /\ \A k \in 1..Len(hist) : hist[k] >= 0
      /\ SumSeq(hist) = c.out.total_requests
      /\ SumSeq(hist) = Len(c.in)

\* a record without latencyMs and one of 25000 ms: buckets 0 and 9 hold
\* one each, two requests
C20_Witness ==
  \E c \in AggCalls :
    /\ Len(c.in) = 2
    /\ "latencyMs" \notin DOMAIN c.in[1]
    /\ "latencyMs" \in DOMAIN c.in[2] /\ c.in[2].latencyMs = 25000
    /\ ~IsNone(c.out)
    /\ c.out.lat_buckets[1] = 1
    /\ c.out.lat_buckets[10] = 1
    /\ c.out.total_requests = 2

(***************************************************************************)
(* Per-model savings                                                       *)
(***************************************************************************)
\* C21: when every record's cost and baselineCost is non-negative, every
\* ModelStat's savings_pct is within [0, 100], and it is 0 for every model
\* whose summed cost is at least its summed baseline or whose summed
\* baseline is 0.
C21_ModelPctRange ==
  \A c \in AggCalls :
    (/\ c.in /= <<>>
     /\ \A j \in 1..Len(c.in) :
          /\ ("cost" \in DOMAIN c.in[j] => c.in[j].cost >= 0)
          /\ ("baselineCost" \in DOMAIN c.in[j] => c.in[j].baselineCost >= 0))
    => \A ms \in {c.out.models} : \A i \in 1..Len(ms) :
         /\ ms[i].savings_pct.den > 0
         /\ ms[i].savings_pct.num >= 0
         /\ ms[i].savings_pct.num <= 100 * ms[i].savings_pct.den
         /\ (ms[i].cost >= ms[i].baseline \/ ms[i].baseline = 0)
              => ms[i].savings_pct.num = 0

\* non-negative records of two models: one saves two thirds of its
\* baseline, the other costs more than its baseline and shows 0
C21_Witness ==
  \E c \in AggCalls :
    /\ ~IsNone(c.out)
    /\ \A j \in 1..Len(c.in) :
         /\ ("cost" \in DOMAIN c.in[j] => c.in[j].cost >= 0)
         /\ ("baselineCost" \in DOMAIN c.in[j] => c.in[j].baselineCost >= 0)
    /\ Len(c.out.models) = 2
    /\ \E i \in 1..2 :
         /\ c.out.models[i].cost = 1 /\ c.out.models[i].baseline = 3
         /\ RatEq(c.out.models[i].savings_pct, Rat(200, 3))
         /\ c.out.models[3 - i].cost > c.out.models[3 - i].baseline
         /\ c.out.models[3 - i].savings_pct.num = 0

\* C22: for a non-empty record sequence the period's real_savings is at
\* most the sum of the ModelStat savings, and equal to it when no model's
\* summed cost exceeds its summed baseline.
C22_SavingsSum ==
  \A c \in AggCalls : c.in /= <<>> =>
    \A ms \in {c.out.models} :
      LET total == SumSeq([i \in 1..Len(ms) |-> ms[i].savings])
      IN  /\ c.out.real_savings <= total
          /\ (\A i \in 1..Len(ms) : ms[i].cost <= ms[i].baseline)
               => c.out.real_savings = total

\* one model costs more than its baseline, the other saves 4: the period
\* saves 2, the per-model savings sum to 4
C22_Witness ==
  \E c \in AggCalls :
    /\ ~IsNone(c.out)
    /\ Len(c.out.models) = 2
    /\ \E i \in 1..2 : c.out.models[i].cost > c.out.models[i].baseline
    /\ c.out.real_savings = 2
    /\ SumSeq([i \in 1..2 |-> c.out.models[i].savings]) = 4

====
